---- MODULE Spec2Model ----
(***************************************************************************)
(* Model of process_buildings.py: the module-level loop over a directory   *)
(* of .png files and process_image (corner sampling, greedy colour         *)
(* clustering, tolerance-based background removal, bounding box, crop,     *)
(* resize, save), one step per statement group.                            *)
(*                                                                         *)
(* A pixel is a tuple <<r, g, b, a>>; Python's s[0..3] are s[1..4] here.   *)
(*   Spec / LiveSpec  the program on a small directory                     *)
(*   ImageSpec        the program on a directory holding one file, drawn   *)
(*                    from a larger family of images                       *)
(*   ClusterSpec      the clustering loop (lines 20-29) on arbitrary       *)
(*                    sample lists                                         *)
(*   ResizeSpec       the target-height computation and resize (70-73)     *)
(***************************************************************************)
EXTENDS Integers, Sequences, FiniteSets, TLC

VARIABLES
  pc,         \* position: start / loop / done / exited, or inside
              \* process_image: open / sample / cluster / bbox / test / save
  dirExists,  \* os.path.exists(directory)
  listing,    \* os.listdir(directory): a sequence of file names
  idx,        \* number of entries of the listing the for loop has consumed
  disk,       \* file name -> content
  disk0,      \* the disk when the program started (history)
  log,        \* the outcome lines printed, in order
  status,     \* exit status (-1 while running)
  img,        \* process_image: <<width, height>> of the image bound to img
  data,       \* process_image: the pixel buffer, (x, y) -> pixel
  samples,    \* process_image: the samples list (in ClusterSpec: the part
              \* of it the loop has iterated over)
  bg_colors,  \* process_image: the accepted cluster colours
  member,     \* member[i]: index of the cluster sample i fell into, 0 if it
              \* was skipped (history); Len(member) samples have been visited
  box,        \* process_image: min_x, min_y, max_x, max_y
  rect,       \* process_image: the rectangle handed to img.crop
  crop,       \* ResizeSpec: <<width, height>> of a cropped image
  resized     \* ResizeSpec: the outcome of the resize

batchVars == <<pc, dirExists, listing, idx, disk, disk0, log, status>>
clusterVars == <<samples, bg_colors, member>>
imageVars == <<img, data, box, rect>>
resizeVars == <<crop, resized>>
vars == <<batchVars, clusterVars, imageVars, resizeVars>>

NoBox == [min_x |-> 0, min_y |-> 0, max_x |-> 0, max_y |-> 0]
NoRect == <<0, 0, 0, 0>>

BatchIdle ==
  /\ pc = "idle" /\ dirExists = FALSE /\ listing = <<>> /\ idx = 0
  /\ disk = <<>> /\ disk0 = <<>> /\ log = <<>> /\ status = -1
ClusterIdle == samples = <<>> /\ bg_colors = <<>> /\ member = <<>>
ImageIdle == img = <<0, 0>> /\ data = <<>> /\ box = NoBox /\ rect = NoRect
ResizeIdle == crop = <<0, 0>> /\ resized = [state |-> "idle", w |-> 0, h |-> 0]

-----
(* Program constants *)

NumSamples == 10          \* the ten entries of the samples list
SampleOffset == 10        \* data[10, 0], data[width-11, 0] = width-1-10
ClusterThreshold == 10    \* abs(...) < 10 in the clustering loop
tolerance_solid == 25
tolerance_checker == 35
target_width == 160

(* Model bounds *)

MaxDim == 12      \* largest image width and height drawn
MaxMarks == 2     \* largest number of pixels that differ from the backdrop
MaxFiles == 2     \* largest number of directory entries
MaxCropW == 165   \* largest cropped width drawn in ResizeSpec
MaxCropH == 3     \* largest cropped height drawn in ResizeSpec
WideDim == 161    \* width of the one wide image size drawn

-----------------------------------------------------------------------------
(* Pixels and colour distance *)

Abs(n) == IF n < 0 THEN -n ELSE n
Max2(a, b) == IF a > b THEN a ELSE b
MaxDiff(p, q) == Max2(Abs(p[1] - q[1]), Max2(Abs(p[2] - q[2]), Abs(p[3] - q[3])))

TRANSPARENT == <<0, 0, 0, 0>>

-----------------------------------------------------------------------------
(* Clustering of the corner samples, lines 20-29 *)

\* line 25 with the comparison widened to <=
MatchesInclusive(s, b) ==
  /\ Abs(s[1] - b[1]) <= ClusterThreshold
  /\ Abs(s[2] - b[2]) <= ClusterThreshold
  /\ Abs(s[3] - b[3]) <= ClusterThreshold

\* line 25: abs(s[0]-b[0]) < 10 and abs(s[1]-b[1]) < 10 and abs(s[2]-b[2]) < 10
Matches(s, b) ==
  /\ Abs(s[1] - b[1]) < ClusterThreshold
  /\ Abs(s[2] - b[2]) < ClusterThreshold
  /\ Abs(s[3] - b[3]) < ClusterThreshold

\* lines 24-27: the index of the first b in bg_colors that s matches (the b at
\* which the inner loop breaks), 0 when found stays False
FirstMatch(s, bg) ==
  IF \E j \in 1..Len(bg) : Matches(s, bg[j])
  THEN CHOOSE j \in 1..Len(bg) :
         Matches(s, bg[j]) /\ \A k \in 1..(j - 1) : ~Matches(s, bg[k])
  ELSE 0

\* line 22 without the alpha test
ClusterStepNoAlpha(bg, s) ==
  IF FirstMatch(s, bg) > 0 THEN bg ELSE Append(bg, s)

\* lines 22-29: one iteration of "for s in samples"
ClusterStep(bg, s) ==
  IF s[4] < 255 THEN bg
  ELSE IF FirstMatch(s, bg) > 0 THEN bg
  ELSE Append(bg, s)

\* lines 20-29: bg_colors after the first k samples
RECURSIVE ClusterPrefix(_, _)
ClusterPrefix(ss, k) ==
  IF k = 0 THEN <<>> ELSE ClusterStep(ClusterPrefix(ss, k - 1), ss[k])

ClusterOf(ss) == ClusterPrefix(ss, Len(ss))

-----------------------------------------------------------------------------
(* Classification, lines 31-47 *)

\* line 37 with the two tolerances exchanged
ToleranceSwapped(bg) ==
  IF Len(bg) > 1 THEN tolerance_solid ELSE tolerance_checker

\* line 37: tolerance_checker if len(bg_colors) > 1 else tolerance_solid
Tolerance(bg) ==
  IF Len(bg) > 1 THEN tolerance_checker ELSE tolerance_solid

\* lines 34-40 looking only at the first cluster colour
is_bg_first_only(p, bg) ==
  \/ p[4] < 255
  \/ /\ Len(bg) > 0
     /\ Abs(p[1] - bg[1][1]) < Tolerance(bg)
     /\ Abs(p[2] - bg[1][2]) < Tolerance(bg)
     /\ Abs(p[3] - bg[1][3]) < Tolerance(bg)

\* lines 34-40
is_bg(p, bg) ==
  \/ p[4] < 255
  \/ \E j \in 1..Len(bg) :
       /\ Abs(p[1] - bg[j][1]) < Tolerance(bg)
       /\ Abs(p[2] - bg[j][2]) < Tolerance(bg)
       /\ Abs(p[3] - bg[j][3]) < Tolerance(bg)

\* lines 43-47: the pixel buffer after the first pass
Classify(px, bg) ==
  [p \in DOMAIN px |-> IF is_bg(px[p], bg) THEN TRANSPARENT ELSE px[p]]

-----------------------------------------------------------------------------
(* Pixel access and corner sampling, lines 7-17 *)

\* data[x, y] of the imaging library: a negative index counts from the far
\* edge (once); an index still outside the image raises IndexError
Resolve(i, n) == IF i < 0 THEN n + i ELSE i

InImage(size, c) ==
  /\ Resolve(c[1], size[1]) \in 0..(size[1] - 1)
  /\ Resolve(c[2], size[2]) \in 0..(size[2] - 1)

GetPixel(px, size, c) == px[<<Resolve(c[1], size[1]), Resolve(c[2], size[2])>>]

\* lines 13-16: the ten coordinates, in the order the list is built
SampleCoords(w, h) ==
  << <<0, 0>>, <<SampleOffset, 0>>, <<0, SampleOffset>>, <<SampleOffset, SampleOffset>>,
     <<w - 1, 0>>, <<w - 1 - SampleOffset, 0>>,
     <<0, h - 1>>, <<SampleOffset, h - 1>>,
     <<w - 1, h - 1>>, <<w - 1 - SampleOffset, h - 1>> >>

\* building the samples list raises as soon as one coordinate is outside
SamplingFails(size) ==
  \E i \in 1..NumSamples : ~InImage(size, SampleCoords(size[1], size[2])[i])

\* lines 12-17
Samples(px, size) ==
  [i \in 1..NumSamples |-> GetPixel(px, size, SampleCoords(size[1], size[2])[i])]

-----------------------------------------------------------------------------
(* Bounding box, lines 49-64 *)

SetMin(S) == CHOOSE m \in S : \A n \in S : m <= n
SetMax(S) == CHOOSE m \in S : \A n \in S : m >= n

\* the pixels the second pass looks at: data[x, y][3] > 0
Visible(px) == {p \in DOMAIN px : px[p][4] > 0}

\* lines 50-60: running minima from width/height, running maxima from 0
BoundingBox(w, h, px) ==
  LET seen == Visible(px)
  IN  [min_x |-> SetMin({w} \cup {p[1] : p \in seen}),
       min_y |-> SetMin({h} \cup {p[2] : p \in seen}),
       max_x |-> SetMax({0} \cup {p[1] : p \in seen}),
       max_y |-> SetMax({0} \cup {p[2] : p \in seen})]

\* line 62 with >= for >
SkipTestInclusive(b) == b.min_x >= b.max_x

\* line 62: if min_x > max_x
SkipTest(b) == b.min_x > b.max_x

\* line 67: the crop rectangle (left, upper, right, lower), right/lower exclusive
CropRect(b) == <<b.min_x, b.min_y, b.max_x + 1, b.max_y + 1>>

-----------------------------------------------------------------------------
(* Resize, lines 70-73 *)

\* n/d rounded to the nearest integer, ties to even (Python's round)
RoundDiv(n, d) ==
  LET q == n \div d
      r == n % d
  IN  IF 2 * r < d THEN q
      ELSE IF 2 * r > d THEN q + 1
      ELSE IF q % 2 = 0 THEN q ELSE q + 1

\* lines 71-72 with round() for int()
target_height_rounded(w, h) == RoundDiv(target_width * h, w)

\* lines 71-72: int(target_width * (img.height / img.width)); the float
\* product truncates to the integer quotient for all sizes up to 3000x3000
target_height(w, h) == (target_width * h) \div w

\* line 73: the library refuses a size with a side < 1 (ValueError)
Resize(w, h) ==
  IF target_height(w, h) < 1
  THEN [state |-> "raised", w |-> 0, h |-> 0]
  ELSE [state |-> "resized", w |-> target_width, h |-> target_height(w, h)]

-----------------------------------------------------------------------------
(* Input images *)

Backdrop == <<100, 100, 100, 255>>     \* an opaque background colour
Edge25 == <<125, 100, 100, 255>>       \* exactly 25 away from Backdrop on R
Blue == <<0, 0, 255, 255>>             \* far from both

Backdrops == {Backdrop, TRANSPARENT}
MarkColours == {Edge25, Blue}

\* widths and heights drawn: 1, and everything from the sample offset up;
\* one size wider than target_width
Dims == {1} \cup (SampleOffset..MaxDim)
Sizes == (Dims \X Dims) \cup {<<WideDim, SampleOffset + 1>>}

\* where a pixel that differs from the backdrop may sit: two opposite
\* corners, the middle of column 0, the middle of row 0 and the centre; on the
\* wide image the two ends of the middle row
MarkPositions(w, h) ==
  IF w = WideDim THEN {0, w - 1} \X {h \div 2}
  ELSE { <<0, 0>>, <<0, h \div 2>>, <<w \div 2, 0>>, <<w \div 2, h \div 2>>,
         <<w - 1, h - 1>> }

MarkSets(w, h) ==
  UNION {[S -> MarkColours] :
           S \in {T \in SUBSET MarkPositions(w, h) : Cardinality(T) <= MaxMarks}}

MkImage(w, h, bg, marks) ==
  [kind |-> "image", w |-> w, h |-> h,
   px |-> [p \in (0..(w - 1)) \X (0..(h - 1)) |->
             IF p \in DOMAIN marks THEN marks[p] ELSE bg]]

Images ==
  UNION {{MkImage(size[1], size[2], bg, marks) : marks \in MarkSets(size[1], size[2])} :
           size \in Sizes, bg \in Backdrops}

Corrupt == [kind |-> "corrupt"]     \* a .png file the decoder rejects

-----------------------------------------------------------------------------
(* The program, lines 81-88, and process_image, lines 4-79 *)

PngSuffix == <<".", "p", "n", "g">>

\* str.endswith
EndsWith(name, suffix) ==
  /\ Len(name) >= Len(suffix)
  /\ SubSeq(name, Len(name) - Len(suffix) + 1, Len(name)) = suffix

\* line 87: filename.endswith(".png")
IsPng(name) == EndsWith(name, PngSuffix)

APng == <<"a", ".", "p", "n", "g">>
NotPng == <<"c", ".", "P", "N", "G">>
FileNames == { APng, <<"b", ".", "p", "n", "g">>, NotPng, <<"p", "n", "g">> }

\* the contents a file of the small directory may have
FileContents ==
  { Corrupt,
    MkImage(1, 1, Backdrop, <<>>),
    MkImage(SampleOffset + 1, SampleOffset + 1, Backdrop, <<>>),
    MkImage(SampleOffset + 1, SampleOffset + 1, Backdrop, (<<5, 5>> :> Blue)) }

Listings ==
  UNION {{l \in [1..n -> FileNames] : \A i, j \in 1..n : l[i] = l[j] => i = j} :
           n \in 0..MaxFiles}

InitLocals ==
  /\ ClusterIdle /\ ImageIdle /\ ResizeIdle
  /\ pc = "start" /\ idx = 0 /\ log = <<>> /\ status = -1

Init ==
  /\ InitLocals
  /\ dirExists \in BOOLEAN
  /\ listing \in Listings
  /\ ~dirExists => listing = <<>>
  /\ disk \in [{listing[i] : i \in 1..Len(listing)} -> FileContents]
  /\ disk0 = disk

ImageInit ==
  /\ InitLocals
  /\ dirExists = TRUE
  /\ listing = <<NotPng, APng>>
  /\ \E content \in {Corrupt} \cup Images :
       disk = (NotPng :> Corrupt) @@ (APng :> content)
  /\ disk0 = disk

\* the file the loop is at
Cur == listing[idx + 1]

LogLine(outcome, detail, colours) ==
  [name |-> Cur, outcome |-> outcome, detail |-> detail, colours |-> colours]

\* lines 82-86: the existence test, exit(1), os.listdir
Start ==
  /\ pc = "start"
  /\ IF dirExists
       THEN pc' = "loop" /\ status' = status
       ELSE pc' = "exited" /\ status' = 1
  /\ UNCHANGED <<dirExists, listing, idx, disk, disk0, log>>
  /\ UNCHANGED <<clusterVars, imageVars, resizeVars>>

\* an exception that leaves process_image and ends the program
RaisePropagates(detail) ==
  /\ pc' = "exited" /\ status' = 1
  /\ UNCHANGED <<dirExists, listing, idx, disk0, log>>

\* lines 78-79: the except branch prints the error line and the call
\* returns; the loop goes on with the next entry
Raise(detail) ==
  /\ log' = Append(log, LogLine("error", detail, 0))
  /\ idx' = idx + 1
  /\ pc' = "loop"
  /\ UNCHANGED <<dirExists, listing, disk0, status>>

\* lines 86-87: an entry that does not end in ".png"
SkipEntry ==
  /\ pc = "loop" /\ idx < Len(listing) /\ ~IsPng(Cur)
  /\ idx' = idx + 1
  /\ UNCHANGED <<pc, dirExists, listing, disk, disk0, log, status>>
  /\ UNCHANGED <<clusterVars, imageVars, resizeVars>>

\* lines 88, 6-8: the call, Image.open(...).convert("RGBA"), img.load()
OpenImage ==
  /\ pc = "loop" /\ idx < Len(listing) /\ IsPng(Cur)
  /\ samples' = <<>> /\ bg_colors' = <<>> /\ member' = <<>>
  /\ box' = NoBox /\ rect' = NoRect
  /\ IF disk[Cur].kind = "image"
       THEN /\ img' = <<disk[Cur].w, disk[Cur].h>>
            /\ data' = disk[Cur].px
            /\ pc' = "sample"
            /\ UNCHANGED <<dirExists, listing, idx, disk0, log, status>>
       ELSE /\ img' = <<0, 0>> /\ data' = <<>>
            /\ Raise("UnidentifiedImageError")
  /\ UNCHANGED <<disk, resizeVars>>

\* lines 12-17: the samples list
Sample ==
  /\ pc = "sample"
  /\ IF SamplingFails(img)
       THEN /\ Raise("IndexError")
            /\ samples' = samples
       ELSE /\ samples' = Samples(data, img)
            /\ pc' = "cluster"
            /\ UNCHANGED <<dirExists, listing, idx, disk0, log, status>>
  /\ UNCHANGED <<disk, bg_colors, member, imageVars, resizeVars>>

\* the cluster a sample falls into: 0 when skipped, the matching one, or
\* the new one it founds
MemberOf(s, bg) ==
  IF s[4] < 255 THEN 0
  ELSE IF FirstMatch(s, bg) > 0 THEN FirstMatch(s, bg)
  ELSE Len(bg) + 1

\* lines 21-29: one iteration of "for s in samples"
Cluster ==
  /\ pc = "cluster" /\ Len(member) < NumSamples
  /\ LET s == samples[Len(member) + 1]
     IN  /\ bg_colors' = ClusterStep(bg_colors, s)
         /\ member' = Append(member, MemberOf(s, bg_colors))
  /\ UNCHANGED <<batchVars, samples, imageVars, resizeVars>>

\* lines 43-47: the first pass over all pixels
FirstPass ==
  /\ pc = "cluster" /\ Len(member) = NumSamples
  /\ data' = Classify(data, bg_colors)
  /\ pc' = "bbox"
  /\ UNCHANGED <<dirExists, listing, idx, disk, disk0, log, status>>
  /\ UNCHANGED <<clusterVars, img, box, rect, resizeVars>>

\* lines 50-60: the second pass
FindBox ==
  /\ pc = "bbox"
  /\ box' = BoundingBox(img[1], img[2], data)
  /\ pc' = "test"
  /\ UNCHANGED <<dirExists, listing, idx, disk, disk0, log, status>>
  /\ UNCHANGED <<clusterVars, img, data, rect, resizeVars>>

\* lines 62-64: the skip line, return
SkipFile ==
  /\ pc = "test" /\ SkipTest(box)
  /\ log' = Append(log, LogLine("skipped", "all transparent", 0))
  /\ idx' = idx + 1
  /\ pc' = "loop"
  /\ UNCHANGED <<dirExists, listing, disk, disk0, status>>
  /\ UNCHANGED <<clusterVars, imageVars, resizeVars>>

\* lines 67-73: crop, then resize
CropResize ==
  /\ pc = "test" /\ ~SkipTest(box)
  /\ rect' = CropRect(box)
  /\ LET w == box.max_x + 1 - box.min_x
         h == box.max_y + 1 - box.min_y
     IN  IF Resize(w, h).state = "raised"
           THEN /\ img' = <<w, h>>
                /\ Raise("ValueError")
           ELSE /\ img' = <<Resize(w, h).w, Resize(w, h).h>>
                /\ pc' = "save"
                /\ UNCHANGED <<dirExists, listing, idx, disk0, log, status>>
  /\ UNCHANGED <<disk, clusterVars, data, box, resizeVars>>

\* the file img.save writes: the resampled crop of the buffer
Saved == [kind |-> "resized", w |-> img[1], h |-> img[2], rect |-> rect, px |-> data]

\* lines 76-77: img.save(filepath) succeeds, the success line
SaveFile ==
  /\ pc = "save"
  /\ disk' = [disk EXCEPT ![Cur] = Saved]
  /\ log' = Append(log, LogLine("processed", "", Len(bg_colors)))
  /\ idx' = idx + 1
  /\ pc' = "loop"
  /\ UNCHANGED <<dirExists, listing, disk0, status>>
  /\ UNCHANGED <<clusterVars, imageVars, resizeVars>>

\* line 76: img.save cannot open the file for writing; nothing is written
SaveDenied ==
  /\ pc = "save"
  /\ Raise("PermissionError")
  /\ UNCHANGED <<disk, clusterVars, imageVars, resizeVars>>

\* line 76: img.save has opened the file, which truncates it, and the write
\* then fails: a partial file stays behind
SaveBroken ==
  /\ pc = "save"
  /\ disk' = [disk EXCEPT ![Cur] = [kind |-> "partial"]]
  /\ Raise("OSError")
  /\ UNCHANGED <<clusterVars, imageVars, resizeVars>>

\* the loop is exhausted and the script ends
Finish ==
  /\ pc = "loop" /\ idx = Len(listing)
  /\ pc' = "done" /\ status' = 0
  /\ UNCHANGED <<dirExists, listing, idx, disk, disk0, log>>
  /\ UNCHANGED <<clusterVars, imageVars, resizeVars>>

Next ==
  \/ Start \/ SkipEntry \/ OpenImage \/ Sample \/ Cluster \/ FirstPass
  \/ FindBox \/ SkipFile \/ CropResize \/ SaveFile \/ SaveDenied \/ SaveBroken
  \/ Finish

Spec == Init /\ [][Next]_vars

\* the interpreter keeps running the script: a step that can be taken is taken
LiveSpec == Spec /\ WF_vars(Next)

ImageSpec == ImageInit /\ [][Next]_vars

-----------------------------------------------------------------------------
(* ClusterSpec: the loop of lines 20-29 on any list of ten samples; the    *)
(* next sample of the list is the input of the step                        *)

SamplePalette ==
  { <<0, 0, 0, 255>>, <<5, 5, 0, 255>>, <<10, 5, 0, 255>>, <<0, 0, 0, 128>> }

ClusterInit ==
  /\ BatchIdle /\ ImageIdle /\ ResizeIdle
  /\ samples = <<>> /\ bg_colors = <<>> /\ member = <<>>

\* one iteration on sample s
Visit(s) ==
  /\ samples' = Append(samples, s)
  /\ bg_colors' = ClusterStep(bg_colors, s)
  /\ member' = Append(member, MemberOf(s, bg_colors))
  /\ UNCHANGED <<batchVars, imageVars, resizeVars>>

\* line 22: if s[3] < 255: continue
SkipSample ==
  /\ Len(samples) < NumSamples
  /\ \E s \in SamplePalette : s[4] < 255 /\ Visit(s)

\* lines 24-27: found = True; break
MergeSample ==
  /\ Len(samples) < NumSamples
  /\ \E s \in SamplePalette :
       s[4] >= 255 /\ FirstMatch(s, bg_colors) > 0 /\ Visit(s)

\* lines 28-29: bg_colors.append(s)
AcceptSample ==
  /\ Len(samples) < NumSamples
  /\ \E s \in SamplePalette :
       s[4] >= 255 /\ FirstMatch(s, bg_colors) = 0 /\ Visit(s)

ClusterNext == SkipSample \/ MergeSample \/ AcceptSample

ClusterSpec == ClusterInit /\ [][ClusterNext]_vars

-----------------------------------------------------------------------------
(* ResizeSpec: lines 70-73 on a cropped image of any size *)

ResizeInit ==
  /\ BatchIdle /\ ClusterIdle /\ ImageIdle
  /\ crop \in (1..MaxCropW) \X (1..MaxCropH)
  /\ resized = [state |-> "idle", w |-> 0, h |-> 0]

DoResize ==
  /\ resized.state = "idle"
  /\ resized' = Resize(crop[1], crop[2])
  /\ UNCHANGED <<crop, batchVars, clusterVars, imageVars>>

ResizeNext == DoResize

ResizeSpec == ResizeInit /\ [][ResizeNext]_vars

-----------------------------------------------------------------------------
(* Properties *)

Outcomes == {"processed", "skipped", "error"}

\* the names of the log lines, in the order printed
LogNames == [i \in 1..Len(log) |-> log[i].name]

\* the first k entries of the listing that end in ".png", in listing order
PngPrefix(k) == SelectSeq(SubSeq(listing, 1, k), LAMBDA n : EndsWith(n, PngSuffix))

C1_VisitedOnceInOrder ==
  /\ LogNames = PngPrefix(idx)
  /\ \A i \in 1..Len(log) : log[i].outcome \in Outcomes

C1_Completed ==
  /\ pc = "done" /\ status = 0 /\ idx = Len(listing)
  /\ LogNames = PngPrefix(Len(listing))

\* C1: when the directory exists, the loop visits every entry ending in
\* ".png" exactly once and in listing order (the printed outcome lines are
\* exactly the ".png" entries consumed so far), every visit ends in one of
\* processed / skipped / error, and whatever the outcomes the program
\* eventually ends normally with exit status 0 having visited them all.
C1_BatchCompletes ==
  /\ [](dirExists => C1_VisitedOnceInOrder)
  /\ (dirExists => <>C1_Completed)

\* C1 witness: a finished run in which a file that ended in error was
\* followed by a file that was processed.
C1_Witness ==
  /\ C1_Completed
  /\ \E i, j \in 1..Len(log) :
       i < j /\ log[i].outcome = "error" /\ log[j].outcome = "processed"

\* C2 as claimed: whenever process_image ends in the error outcome, at
\* whatever step the exception was raised (the save included), the file on
\* disk is exactly what it was before the call.
C2_ErrorLeavesFileUntouched ==
  \A i \in 1..Len(log) :
    log[i].outcome = "error" => disk[log[i].name] = disk0[log[i].name]

IsSolidOpaque(f) ==
  /\ f.kind = "image"
  /\ \E c \in {f.px[p] : p \in DOMAIN f.px} :
       c[4] = 255 /\ \A p \in DOMAIN f.px : f.px[p] = c

\* C3 as claimed: for an image of any width and height whose pixels are all
\* the same fully opaque colour, process_image prints the skip line and
\* leaves the file as it was.
C3_SolidImageSkipped ==
  \A i \in 1..Len(log) :
    IsSolidOpaque(disk0[log[i].name]) =>
      /\ log[i].outcome = "skipped"
      /\ disk[log[i].name] = disk0[log[i].name]

\* the first pass has run and process_image has not returned
AfterFirstPass == pc \in {"bbox", "test", "save"}

\* the tolerance the claim states for a cluster count
ClaimedTolerance(n) == IF n = 1 THEN 25 ELSE 35

\* C4: with exactly one cluster colour the tolerance is 25 and with more
\* than one it is 35, the comparison being strict on every channel: a fully
\* opaque pixel is made transparent exactly when its largest channel
\* difference from some cluster colour is below that tolerance, so a pixel
\* exactly 25 away from a cluster colour is kept when there is one cluster
\* and set to (0,0,0,0) when there are several.
C4_ToleranceByClusterCount ==
  AfterFirstPass =>
    LET bg == bg_colors
        orig == disk0[Cur].px
    IN  \A p \in DOMAIN orig :
          (orig[p][4] = 255 /\ Len(bg) >= 1) =>
            /\ (data[p] = TRANSPARENT) <=>
                 (\E j \in 1..Len(bg) :
                    MaxDiff(orig[p], bg[j]) < ClaimedTolerance(Len(bg)))
            /\ (\E j \in 1..Len(bg) : MaxDiff(orig[p], bg[j]) = 25) =>
                 /\ Len(bg) = 1 => data[p] = orig[p]
                 /\ Len(bg) > 1 => data[p] = TRANSPARENT

\* C4 witness: several clusters were found and a fully opaque pixel whose
\* nearest cluster colour is exactly 25 away was made transparent.
C4_Witness ==
  /\ AfterFirstPass
  /\ Len(bg_colors) > 1
  /\ \E p \in DOMAIN data :
       /\ disk0[Cur].px[p][4] = 255
       /\ \E j \in 1..Len(bg_colors) : MaxDiff(disk0[Cur].px[p], bg_colors[j]) = 25
       /\ \A j \in 1..Len(bg_colors) : MaxDiff(disk0[Cur].px[p], bg_colors[j]) >= 25
       /\ data[p] = TRANSPARENT

-----------------------------------------------------------------------------
(* Properties of the clustering loop *)

\* the claim's relation: R, G and B each differ by less than 10
Close(a, b) == MaxDiff(a, b) < 10

\* the fully opaque samples among those visited, by position and by colour
OpaqueIdx == {i \in 1..Len(member) : samples[i][4] = 255}
OpaqueColours == {samples[i] : i \in OpaqueIdx}

LoopDone == Len(member) = NumSamples

\* samples i and j ended up in the same cluster exactly when they are close,
\* and the cluster count is the number of classes of close samples
ClustersAreClasses ==
  LET opaque == OpaqueIdx
  IN  /\ \A i, j \in opaque :
           Close(samples[i], samples[j]) <=> member[i] = member[j]
      /\ Len(bg_colors) =
           Cardinality({{j \in opaque : Close(samples[i], samples[j])} : i \in opaque})

\* C5 as claimed: for any list of samples, two fully opaque samples are in
\* the same cluster when they are close and in different clusters when they
\* are not, and the cluster count is the number of such classes.
C5_AnyListClustersAreClasses == LoopDone => ClustersAreClasses

\* closeness is transitive on the fully opaque samples of the list (it is
\* reflexive and symmetric, so only three different colours can break it)
CloseTransitive ==
  LET colours == OpaqueColours
  IN  \A a \in colours : \A b \in colours \ {a} :
        Close(a, b) => \A c \in colours \ {a, b} : Close(b, c) => Close(a, c)

\* C5 amended: the same, for the lists on whose fully opaque samples
\* closeness is transitive.
C5_TransitiveListClustersAreClasses ==
  (LoopDone /\ CloseTransitive) => ClustersAreClasses

\* C5 witness: a finished loop over a list with transitive closeness in
\* which two samples of different colour were merged and a transparent
\* sample was skipped.
C5_Witness ==
  /\ LoopDone /\ CloseTransitive
  /\ \E i \in 1..Len(member) : member[i] = 0
  /\ \E i, j \in OpaqueIdx : samples[i] # samples[j] /\ member[i] = member[j]

\* pixels the classification is compared on
ProbePixels ==
  { <<25, 0, 0, 255>>, <<34, 5, 0, 255>>, <<40, 5, 0, 255>>,
    <<200, 200, 200, 255>>, <<200, 200, 200, 128>> }

\* the list with its first two samples exchanged
SwapFirstTwo(ss) ==
  [k \in 1..Len(ss) |-> IF k = 1 THEN ss[2] ELSE IF k = 2 THEN ss[1] ELSE ss[k]]

\* the list with its first sample moved to the end
Rotate(ss) ==
  [k \in 1..Len(ss) |-> IF k = Len(ss) THEN ss[1] ELSE ss[k + 1]]

\* every permutation of a list is a sequence of these two rearrangements
Rearranged(ss) == {SwapFirstTwo(ss), Rotate(ss)}

SameCount(bg1, bg2) ==
  Len(bg1) = Len(bg2) /\ Tolerance(bg1) = Tolerance(bg2)

SameClassification(bg1, bg2) ==
  \A p \in ProbePixels : is_bg(p, bg1) <=> is_bg(p, bg2)

\* C7 as claimed: exchanging the first two samples of the list or moving the
\* first sample to the end (every permutation is a sequence of these, and
\* every list is visited) changes neither the cluster count, nor the
\* tolerance, nor the classification of any pixel.
C7_OrderIrrelevant ==
  LoopDone =>
    \A ss \in Rearranged(samples) :
      /\ SameCount(ClusterOf(ss), bg_colors)
      /\ SameClassification(ClusterOf(ss), bg_colors)

\* any two fully opaque samples of the list are equal or not close
NoNearDuplicates ==
  \A a, b \in OpaqueColours : a = b \/ ~Close(a, b)

\* C7 amended: these rearrangements change neither the cluster count nor the
\* tolerance when closeness is transitive on the fully opaque samples, and
\* they do not change the classification of any pixel either when any two
\* fully opaque samples are equal or not close.
C7_OrderIrrelevantWhenSeparated ==
  LoopDone =>
    LET transitive == CloseTransitive
        separated == NoNearDuplicates
    IN  (transitive \/ separated) =>
          \A ss \in Rearranged(samples) :
            LET rearranged == ClusterOf(ss)
            IN  /\ transitive => SameCount(rearranged, bg_colors)
                /\ separated => SameClassification(rearranged, bg_colors)

\* C7 witness: a finished loop over a list without near duplicates that
\* found two clusters and whose rearrangements are other lists.
C7_Witness ==
  /\ LoopDone /\ NoNearDuplicates
  /\ Len(bg_colors) = 2
  /\ \A ss \in Rearranged(samples) : ss # samples

\* C10: at every iteration of the clustering loop and at its end: the
\* accepted colours are pairwise at least 10 apart on some channel, every
\* fully opaque sample visited is close to an accepted colour, no sample with
\* alpha < 255 is accepted, the count is between 0 and the number of samples
\* visited (at most 10), it is 0 exactly when every sample visited had
\* alpha < 255, and with no cluster at the end only pixels with alpha < 255
\* are background.
C10_GreedyInvariant ==
  /\ \A i, j \in 1..Len(bg_colors) :
       i < j => MaxDiff(bg_colors[i], bg_colors[j]) >= 10
  /\ \A i \in OpaqueIdx :
       \E j \in 1..Len(bg_colors) : MaxDiff(samples[i], bg_colors[j]) < 10
  /\ \A j \in 1..Len(bg_colors) : bg_colors[j][4] = 255
  /\ Len(bg_colors) <= Len(member) /\ Len(member) <= 10
  /\ (Len(bg_colors) = 0) <=> (\A i \in 1..Len(member) : samples[i][4] < 255)
  /\ (LoopDone /\ Len(bg_colors) = 0) =>
       \A p \in ProbePixels : is_bg(p, bg_colors) <=> p[4] < 255

\* C10 witness: a finished loop that skipped a transparent sample, merged a
\* sample into a cluster of another colour and ended with two clusters.
C10_Witness ==
  /\ LoopDone
  /\ Len(bg_colors) = 2
  /\ \E i \in 1..Len(member) : member[i] = 0
  /\ \E i \in OpaqueIdx : samples[i] # bg_colors[member[i]]

-----------------------------------------------------------------------------
(* Properties of the resize *)

-----------------------------------------------------------------------------
(* Properties of the bounding box *)

\* the pixels with alpha > 0 in the buffer
Seen == {p \in DOMAIN data : data[p][4] > 0}

\* the call that printed the last log line got past the first pass
LastCallClassified ==
  /\ pc \in {"loop", "done"} /\ Len(log) > 0
  /\ log[Len(log)].detail \notin {"UnidentifiedImageError", "IndexError"}

\* C8: the file is skipped exactly when no pixel has alpha > 0 after the
\* first pass (the test min_x > max_x is exact, also when the only such
\* pixels lie in column 0 or row 0); otherwise min/max are the smallest and
\* largest x and y over those pixels, the crop rectangle is
\* (min_x, min_y, max_x+1, max_y+1), every such pixel lies inside it and each
\* of its four edges holds one.
C8_BoundingBoxExact ==
  /\ pc = "test" =>
       /\ (box.min_x > box.max_x) <=> (Seen = {})
       /\ Seen # {} =>
            /\ \A p \in Seen : /\ box.min_x <= p[1] /\ p[1] <= box.max_x
                               /\ box.min_y <= p[2] /\ p[2] <= box.max_y
            /\ \E p \in Seen : p[1] = box.min_x
            /\ \E p \in Seen : p[1] = box.max_x
            /\ \E p \in Seen : p[2] = box.min_y
            /\ \E p \in Seen : p[2] = box.max_y
  /\ LastCallClassified =>
       (log[Len(log)].outcome = "skipped") <=> (Seen = {})
  /\ (pc = "save" \/ (LastCallClassified /\ log[Len(log)].outcome # "skipped")) =>
       /\ rect = <<box.min_x, box.min_y, box.max_x + 1, box.max_y + 1>>
       /\ \A p \in Seen : /\ rect[1] <= p[1] /\ p[1] < rect[3]
                          /\ rect[2] <= p[2] /\ p[2] < rect[4]
       /\ \E p \in Seen : p[1] = rect[1]
       /\ \E p \in Seen : p[1] = rect[3] - 1
       /\ \E p \in Seen : p[2] = rect[2]
       /\ \E p \in Seen : p[2] = rect[4] - 1

\* C8 witness: a file about to be saved whose only pixels with alpha > 0 lie
\* in column 0.
C8_Witness ==
  /\ pc = "save"
  /\ Seen # {}
  /\ \A p \in Seen : p[1] = 0

\* C9 as claimed: for an image whose width or height is at most 11, corner
\* sampling does not fail: the call does not end in the error outcome with
\* an index error.
C9_SmallImageSampled ==
  \A i \in 1..Len(log) :
    LET f == disk0[log[i].name]
    IN  (f.kind = "image" /\ (f.w <= 11 \/ f.h <= 11)) =>
          log[i].detail # "IndexError"

====
